---- MODULE Spec2Model ----
(* A model of auto_trader.py: the trading cycle trade_once, the helpers it  *)
(* calls, and the polling loop of main that drives it through the schedule  *)
(* library at 09:00, 14:00 and 20:00.                                       *)
(*                                                                          *)
(* Time is counted in whole hours since midnight of the first day; the      *)
(* program reads the clock only to compare it with the hours of its jobs,   *)
(* so the clock is moved from one such hour to the next.  Prices            *)
(* handed to adjust_price_to_tick are carried in hundredths, so that        *)
(* current_price * 0.99 and current_price * 1.01 are exact.  Text is a      *)
(* sequence of characters; a Hangul syllable is one character, written      *)
(* here by its romanised name ("mae", "su", "do", ...).                     *)
EXTENDS Integers, Sequences, FiniteSets, TLC

\* ------------------------------------------------------------------ bounds
\* last hour the clock reaches
MaxClock == 34
\* hours of the first day at which main() may start
StartHours == {8}

\* --------------------------------------------------------------- constants
HoursPerDay == 24
\* the three jobs registered by main, named by their hour of day
Jobs == {9, 14, 20}
Market == "KRW-BTC"
\* the order volume 0.0001, in units of 0.0001
Volume == 1
None == "None"
\* an optional value: Nil is Python's None, Some(v) the value v
Nil == <<>>
Some(v) == <<v>>
Val(o) == o[1]
NaN == [nan |-> TRUE, num |-> 0, den |-> 1]

\* ------------------------------------------------------------------- text
Upper == <<"A","B","C","D","E","F","G","H","I","J","K","L","M",
           "N","O","P","Q","R","S","T","U","V","W","X","Y","Z">>
Lowercase == <<"a","b","c","d","e","f","g","h","i","j","k","l","m",
           "n","o","p","q","r","s","t","u","v","w","x","y","z">>

\* str.lower() on one character
LowerChar(c) ==
  IF \E i \in 1..26 : Upper[i] = c
    THEN Lowercase[CHOOSE i \in 1..26 : Upper[i] = c]
    ELSE c

\* str.lower()
Lower(s) == [i \in 1..Len(s) |-> LowerChar(s[i])]

\* the operator "sub in s" on strings
Contains(sub, s) ==
  \E i \in 0..(Len(s) - Len(sub)) :
    \A j \in 1..Len(sub) : s[i + j] = sub[j]

KwBuyKo == <<"mae", "su">>
KwBuyEn == <<"b", "u", "y">>
KwSellKo == <<"mae", "do">>
KwSellEn == <<"s", "e", "l", "l">>

\* the text substituted when get_investment_opinion returned None
Placeholder == <<"A", "I", " ", "ui", "gyeon", " ", "jo", "hoe", " ", "sil", "pae">>

\* replies of the recommendation service used as inputs
TxtBuy == <<"B", "u", "y">>
TxtBuyKo == <<"mae", "su", " ", "chu", "cheon">>
TxtSell == <<"S", "E", "L", "L">>
TxtSellKo == <<"mae", "do">>
TxtHold == <<"h", "o", "l", "d">>
TxtSellBuy == <<"s", "e", "l", "l", ",", " ", "n", "o", "t", " ", "B", "U", "Y">>
TxtBuySellKo == <<"mae", "su", "/", "mae", "do">>
AdviceTexts == {TxtBuy, TxtBuyKo, TxtSell, TxtSellKo, TxtHold, TxtSellBuy, TxtBuySellKo}

\* ------------------------------------------------------------ price series
Rising == [i \in 1..20 |-> 99 + i]
Flat == [i \in 1..20 |-> 100]
Short == <<100, 101, 102, 103, 104, 105>>
Empty == <<>>
SeriesSet == {Rising, Flat, Short, Empty}

\* current prices returned by the exchange
Prices == {1012}

\* s[lo] + ... + s[hi]
RECURSIVE SumRange(_, _, _)
SumRange(s, lo, hi) ==
  IF lo > hi THEN 0 ELSE s[lo] + SumRange(s, lo + 1, hi)

\* the sum of the last n elements of s
SumLast(s, n) == SumRange(s, Len(s) - n + 1, Len(s))

\* df["close"].rolling(window=w).mean().iloc[-1]
RollingMeanLast(closes, w) ==
  IF Len(closes) < w THEN NaN
  ELSE [nan |-> FALSE, num |-> SumLast(closes, w), den |-> w]

\* a >= b in place of a > b
GreaterOrEqual(a, b) ==
  /\ ~a.nan
  /\ ~b.nan
  /\ a.num * b.den >= b.num * a.den

\* a > b on floats: false when either side is NaN
Greater(a, b) ==
  /\ ~a.nan
  /\ ~b.nan
  /\ a.num * b.den > b.num * a.den

simple_analysis(closes) ==
  IF Greater(RollingMeanLast(closes, 5), RollingMeanLast(closes, 20))
    THEN "buy_signal"
    ELSE "sell_signal"

\* ------------------------------------------------------------- tick table
\* int(n / d): the quotient cut off instead of rounded
RoundDown(n, d) == n \div d

\* round(n / d) for n >= 0, d > 0: nearest integer, ties to the even one
RoundHalfEven(n, d) ==
  LET q == n \div d
      r == n % d
  IN  IF 2 * r < d THEN q
      ELSE IF 2 * r > d THEN q + 1
      ELSE IF q % 2 = 0 THEN q ELSE q + 1

\* the quotient returned without being multiplied back by the increment
adjust_price_to_tick_unscaled(c) ==
  IF c >= 2000000 * 100 THEN RoundHalfEven(c, 1000 * 100)
  ELSE IF c >= 1000000 * 100 THEN RoundHalfEven(c, 500 * 100)
  ELSE IF c >= 500000 * 100 THEN RoundHalfEven(c, 100 * 100)
  ELSE IF c >= 100000 * 100 THEN RoundHalfEven(c, 50 * 100)
  ELSE IF c >= 10000 * 100 THEN RoundHalfEven(c, 10 * 100)
  ELSE IF c >= 1000 * 100 THEN RoundHalfEven(c, 5 * 100)
  ELSE RoundHalfEven(c, 100)

\* adjust_price_to_tick, on a price c given in hundredths
adjust_price_to_tick(c) ==
  IF c >= 2000000 * 100 THEN RoundHalfEven(c, 1000 * 100) * 1000
  ELSE IF c >= 1000000 * 100 THEN RoundHalfEven(c, 500 * 100) * 500
  ELSE IF c >= 500000 * 100 THEN RoundHalfEven(c, 100 * 100) * 100
  ELSE IF c >= 100000 * 100 THEN RoundHalfEven(c, 50 * 100) * 50
  ELSE IF c >= 10000 * 100 THEN RoundHalfEven(c, 10 * 100) * 10
  ELSE IF c >= 1000 * 100 THEN RoundHalfEven(c, 5 * 100) * 5
  ELSE RoundHalfEven(c, 100)

\* ----------------------------------------------------------- the decision
BuyBranch(opinion, sig) ==
  \/ Contains(KwBuyKo, opinion)
  \/ Contains(KwBuyEn, Lower(opinion))
  \/ sig = "buy_signal"

\* the elif without its "or signal == sell_signal"
SellBranchAdviceOnly(opinion, sig) ==
  \/ Contains(KwSellKo, opinion)
  \/ Contains(KwSellEn, Lower(opinion))

SellBranch(opinion, sig) ==
  \/ Contains(KwSellKo, opinion)
  \/ Contains(KwSellEn, Lower(opinion))
  \/ sig = "sell_signal"

\* the two branches tested in the other order
ReconcileSellFirst(opinion, sig) ==
  IF SellBranch(opinion, sig) THEN "SELL"
  ELSE IF BuyBranch(opinion, sig) THEN "BUY"
  ELSE "HOLD"

\* the if / elif of trade_once
Reconcile(opinion, sig) ==
  IF BuyBranch(opinion, sig) THEN "BUY"
  ELSE IF SellBranch(opinion, sig) THEN "SELL"
  ELSE "HOLD"

\* ------------------------------------------------------------ the schedule
\* Job._schedule_next_run: the first instant after t whose hour of day is at
NextRunAfter(t, at) ==
  LET today == (t \div HoursPerDay) * HoursPerDay + at
  IN  IF today > t THEN today ELSE today + HoursPerDay

\* the first hour after t at which one of the jobs is set
NextHour(t) ==
  CHOOSE u \in {NextRunAfter(t, j) : j \in Jobs} :
    \A j \in Jobs : u <= NextRunAfter(t, j)

\* Job.should_run
ShouldRun(t, nr) == t >= nr

RECURSIVE SortJobs(_, _)
SortJobs(S, nr) ==
  IF S = {} THEN <<>>
  ELSE LET j == CHOOSE x \in S : \A y \in S : <<nr[x], x>> = <<nr[y], y>> \/ nr[x] < nr[y]
                                           \/ (nr[x] = nr[y] /\ x < y)
       IN  <<j>> \o SortJobs(S \ {j}, nr)

\* only the job that has been due longest
RunnableJobsFirst(t, nr) ==
  LET q == SortJobs({j \in Jobs : ShouldRun(t, nr[j])}, nr)
  IN  IF q = <<>> THEN <<>> ELSE <<Head(q)>>

\* the jobs run_pending will run: every job that should run, by next_run
RunnableJobs(t, nr) == SortJobs({j \in Jobs : ShouldRun(t, nr[j])}, nr)

\* a job started without waiting for the one before it
CanCallAsync(p) == TRUE

\* run_pending calls a job and waits for it to return before the next one
CanCall(p) == p = "idle"

\* "except sqlite3.Error"
CaughtSqliteOnly(kind) == kind = "OperationalError"

\* "except Exception" in trade_once: the classes derived from Exception
Caught(kind) ==
  kind \in {"OperationalError", "RequestException", "OpenAIError", "IndexError", "TypeError"}

\* the check written with "and"
CollectionFailedBoth(d, p) == d = Nil /\ p = Nil

\* "df is None or current_price is None"
CollectionFailed(d, p) == d = Nil \/ p = Nil

\* the row written whatever the exchange returned
AcceptedAlways(o) == TRUE

\* "if order:"
Accepted(o) == o # None

\* ------------------------------------------------------------------- state
VARIABLES
  now,            \* wall clock, hours
  next_run,       \* next_run of each job
  mpc,            \* where main is
  queue,          \* run_pending: the jobs still to run in this call
  ran,            \* run_pending: the jobs run so far in this call
  poll_t,         \* run_pending: the hour at which this call began (-1: none)
  cur,            \* the job whose trade_once is running (0: the call in main)
  active,         \* the number of trade_once calls that have not returned
  pc,             \* where trade_once is
  conn, df, current_price, signal, ai_opinion, action, price, order,
  exc,            \* the exception being raised
  steps,          \* the steps this cycle has executed
  sub,            \* the order this cycle handed to the exchange
  log0,           \* the number of rows of trade_log when this cycle began
  log,            \* the rows of table trade_log
  arg, res        \* argument and result of a function applied on its own

vars == <<now, next_run, mpc, queue, ran, poll_t, cur, active, pc, conn, df,
          current_price, signal, ai_opinion, action, price, order, exc, steps,
          sub, log0, log, arg, res>>

sched == <<next_run, mpc, queue, ran, poll_t, cur, active>>
locals == <<conn, df, current_price, signal, ai_opinion, action, price, order>>
pure == <<arg, res>>

NoLocals ==
  /\ conn = None /\ df = Nil /\ current_price = Nil /\ signal = None
  /\ ai_opinion = Nil /\ action = None /\ price = Nil /\ order = None

ProgInit ==
  /\ now \in StartHours
  /\ next_run = [j \in Jobs |-> NextRunAfter(now, j)]
  /\ mpc = "startup"
  /\ queue = <<>>
  /\ ran = <<>>
  /\ poll_t = -1
  /\ cur = 0
  /\ active = 0
  /\ pc = "idle"
  /\ NoLocals
  /\ exc = None
  /\ steps = <<>>
  /\ sub = Nil
  /\ log0 = 0
  /\ log = <<>>

Init ==
  /\ ProgInit
  /\ arg = Nil
  /\ res = Nil

Alive == mpc \notin {"stopped", "crashed"}

\* entry of trade_once
Enter ==
  /\ pc' = "init_db"
  /\ active' = active + 1
  /\ conn' = None /\ df' = Nil /\ current_price' = Nil /\ signal' = None
  /\ ai_opinion' = Nil /\ action' = None /\ price' = Nil /\ order' = None
  /\ exc' = None
  /\ steps' = <<>>
  /\ sub' = Nil
  /\ log0' = Len(log)

Raise(kind) ==
  /\ exc' = kind
  /\ pc' = "except"

\* -------------------------------------------------------------------- main
\* main: trade_once() before the loop
StartupCall ==
  /\ mpc = "startup"
  /\ mpc' = "trade_once"
  /\ Enter
  /\ UNCHANGED <<now, next_run, queue, ran, poll_t, cur, log, pure>>

\* schedule.run_pending(): pick the runnable jobs
RunPending ==
  /\ mpc = "run_pending"
  /\ mpc' = "jobs"
  /\ queue' = RunnableJobs(now, next_run)
  /\ ran' = <<>>
  /\ poll_t' = now
  /\ UNCHANGED <<now, next_run, cur, active, pc, locals, exc, steps, sub, log0, log, pure>>

\* run_pending: call the next runnable job
RunJob ==
  /\ mpc = "jobs"
  /\ CanCall(pc)
  /\ queue # <<>>
  /\ cur' = Head(queue)
  /\ queue' = Tail(queue)
  /\ Enter
  /\ UNCHANGED <<now, next_run, mpc, ran, poll_t, log, pure>>

\* trade_once returns; a job is then scheduled for its next run
Return ==
  /\ Alive
  /\ pc = "END"
  /\ pc' = "idle"
  /\ active' = active - 1
  /\ conn' = None /\ df' = Nil /\ current_price' = Nil /\ signal' = None
  /\ ai_opinion' = Nil /\ action' = None /\ price' = Nil /\ order' = None
  /\ IF mpc = "trade_once"
       THEN /\ mpc' = "run_pending"
            /\ UNCHANGED <<next_run, ran, cur>>
       ELSE /\ next_run' = [next_run EXCEPT ![cur] = NextRunAfter(now, cur)]
            /\ ran' = Append(ran, cur)
            /\ cur' = 0
            /\ UNCHANGED mpc
  /\ exc' = None
  /\ steps' = <<>>
  /\ sub' = Nil
  /\ UNCHANGED <<now, queue, poll_t, log0, log, pure>>

\* run_pending returns
PollDone ==
  /\ mpc = "jobs"
  /\ pc = "idle"
  /\ queue = <<>>
  /\ mpc' = "sleep"
  /\ poll_t' = -1
  /\ ran' = <<>>
  /\ UNCHANGED <<now, next_run, queue, cur, active, pc, locals, exc, steps, sub,
                 log0, log, pure>>

\* time.sleep(1) returns
Sleep ==
  /\ mpc = "sleep"
  /\ mpc' = "run_pending"
  /\ UNCHANGED <<now, next_run, queue, ran, poll_t, cur, active, pc, locals, exc,
                 steps, sub, log0, log, pure>>

\* time passes, wherever the program is: the clock reaches the next hour at
\* which some job is set to run
TimePasses ==
  /\ Alive
  /\ NextHour(now) <= MaxClock
  /\ now' = NextHour(now)
  /\ UNCHANGED <<sched, pc, locals, exc, steps, sub, log0, log, pure>>

\* Ctrl+C: KeyboardInterrupt is raised at the current statement; no except
\* clause of the program matches it, so it leaves trade_once and main
Interrupt ==
  /\ Alive
  /\ mpc' = "stopped"
  /\ UNCHANGED <<now, next_run, queue, ran, poll_t, cur, active, pc, locals, exc,
                 steps, sub, log0, log, pure>>

\* -------------------------------------------------------------- trade_once
\* conn = init_db("trade_log.db")
InitDb ==
  /\ Alive
  /\ pc = "init_db"
  /\ steps' = Append(steps, "init_db")
  /\ \/ /\ conn' = "open"
        /\ pc' = "get_historical_data"
        /\ UNCHANGED exc
     \/ /\ Raise("OperationalError")
        /\ UNCHANGED conn
  /\ UNCHANGED <<now, sched, df, current_price, signal, ai_opinion, action, price,
                 order, sub, log0, log, pure>>

\* df = get_historical_data(market, interval, count)
GetHistoricalData ==
  /\ Alive
  /\ pc = "get_historical_data"
  /\ steps' = Append(steps, "get_historical_data")
  /\ \/ /\ df' \in {Some(c) : c \in SeriesSet} \cup {Nil}
        /\ pc' = "get_current_price"
        /\ UNCHANGED exc
     \/ /\ Raise("RequestException")
        /\ UNCHANGED df
  /\ UNCHANGED <<now, sched, conn, current_price, signal, ai_opinion, action, price,
                 order, sub, log0, log, pure>>

\* current_price = get_current_price(market), which returns None when the
\* request raises, and the check that follows
GetCurrentPrice ==
  /\ Alive
  /\ pc = "get_current_price"
  /\ steps' = Append(steps, "get_current_price")
  /\ current_price' \in {Some(p) : p \in Prices} \cup {Nil}
  /\ pc' = IF CollectionFailed(df, current_price') THEN "END" ELSE "simple_analysis"
  /\ UNCHANGED <<now, sched, conn, df, signal, ai_opinion, action, price,
                 order, exc, sub, log0, log, pure>>

\* signal = simple_analysis(df), and the summary text
SimpleAnalysis ==
  /\ Alive
  /\ pc = "simple_analysis"
  /\ steps' = Append(steps, "simple_analysis")
  /\ IF df = Nil
       THEN /\ Raise("TypeError")
            /\ UNCHANGED signal
       ELSE IF Val(df) = Empty
       THEN /\ Raise("IndexError")
            /\ UNCHANGED signal
       ELSE /\ signal' = simple_analysis(Val(df))
            /\ pc' = "get_investment_opinion"
            /\ UNCHANGED exc
  /\ UNCHANGED <<now, sched, conn, df, current_price, ai_opinion, action, price,
                 order, sub, log0, log, pure>>

\* ai_opinion = get_investment_opinion(summary_text), None replaced
GetInvestmentOpinion ==
  /\ Alive
  /\ pc = "get_investment_opinion"
  /\ steps' = Append(steps, "get_investment_opinion")
  /\ \/ \* OpenAI() raises, outside the try
        /\ Raise("OpenAIError")
        /\ UNCHANGED ai_opinion
     \/ \* the request raises, or the reply has no content: None
        /\ ai_opinion' = Some(Placeholder)
        /\ pc' = "decide"
        /\ UNCHANGED exc
     \/ /\ ai_opinion' \in {Some(t) : t \in AdviceTexts}
        /\ pc' = "decide"
        /\ UNCHANGED exc
  /\ UNCHANGED <<now, sched, conn, df, current_price, signal, action, price,
                 order, sub, log0, log, pure>>

\* the branch taken in a cycle that already holds rows of earlier cycles
\* depends on the last of them
DecisionFromLog ==
  IF log # <<>> /\ log[Len(log)].action = "SELL" THEN "BUY"
  ELSE Reconcile(Val(ai_opinion), signal)

\* the branch the if / elif takes on this cycle's advice and signal
Decision == Reconcile(Val(ai_opinion), signal)

\* the two factors exchanged
RawPriceSwapped(side, cp) == IF side = "BUY" THEN cp * 101 ELSE cp * 99

\* raw_buy_price = current_price * 0.99, raw_sell_price = current_price * 1.01,
\* in hundredths
RawPrice(side, cp) == IF side = "BUY" THEN cp * 99 ELSE cp * 101

\* the if / elif, and the limit price of the branch taken
Decide ==
  /\ Alive
  /\ pc = "decide"
  /\ steps' = Append(steps, "decide")
  /\ action' = Decision
  /\ price' = IF action' \in {"BUY", "SELL"}
                THEN Some(adjust_price_to_tick(RawPrice(action', Val(current_price))))
                ELSE Nil
  /\ pc' = IF action' = "BUY" THEN "buy_coin"
           ELSE IF action' = "SELL" THEN "sell_coin"
           ELSE "END"
  /\ UNCHANGED <<now, sched, conn, df, current_price, signal, ai_opinion,
                 order, exc, sub, log0, log, pure>>

\* an order that was not accepted is placed again
AfterOrderRetry(o, side) ==
  IF Accepted(o) THEN "insert_trade_log"
  ELSE IF side = "BUY" THEN "buy_coin" ELSE "sell_coin"

\* what follows the order call: the row is written "if order:", and the
\* function ends otherwise
AfterOrder(o, side) ==
  IF Accepted(o) THEN "insert_trade_log" ELSE "END"

\* buy_coin / sell_coin: the exchange accepts the order, returns nothing, or
\* the call raises and the function returns None
PlaceOrder(side) ==
  /\ steps' = Append(steps, "order")
  /\ \E r \in {"ok", "none", "raise"} :
       /\ sub' = Some([action |-> side, market |-> Market, volume |-> Volume,
                       price |-> Val(price), ok |-> (r = "ok")])
       /\ order' = IF r = "ok" THEN "confirmation" ELSE None
       /\ pc' = AfterOrder(order', side)
  /\ UNCHANGED <<now, sched, conn, df, current_price, signal, ai_opinion, action,
                 price, exc, log0, log, pure>>

BuyCoin ==
  /\ Alive
  /\ pc = "buy_coin"
  /\ PlaceOrder("BUY")

SellCoin ==
  /\ Alive
  /\ pc = "sell_coin"
  /\ PlaceOrder("SELL")

\* insert_trade_log(conn, action, market, volume, price, reason_text)
InsertTradeLog ==
  /\ Alive
  /\ pc = "insert_trade_log"
  /\ steps' = Append(steps, "insert_trade_log")
  /\ \/ \* the row, without its datetime and reason columns
        /\ log' = Append(log, [action |-> action, market |-> Market, volume |-> Volume,
                               price |-> Val(price)])
        /\ pc' = "END"
        /\ UNCHANGED exc
     \/ /\ Raise("OperationalError")
        /\ UNCHANGED log
  /\ UNCHANGED <<now, sched, locals, sub, log0, pure>>

\* except Exception as e: print; any other exception leaves trade_once and
\* run_pending and ends main
Handle ==
  /\ Alive
  /\ pc = "except"
  /\ IF Caught(exc)
       THEN /\ pc' = "END"
            /\ UNCHANGED mpc
       ELSE /\ pc' = "aborted"
            /\ mpc' = "crashed"
  /\ UNCHANGED <<now, next_run, queue, ran, poll_t, cur, active, locals, exc, steps,
                 sub, log0, log, pure>>

\* a step of the program
Step ==
  \/ StartupCall
  \/ RunPending
  \/ RunJob
  \/ Return
  \/ PollDone
  \/ Sleep
  \/ InitDb
  \/ GetHistoricalData
  \/ GetCurrentPrice
  \/ SimpleAnalysis
  \/ GetInvestmentOpinion
  \/ Decide
  \/ BuyCoin
  \/ SellCoin
  \/ InsertTradeLog
  \/ Handle

Next ==
  \/ StartupCall
  \/ RunPending
  \/ RunJob
  \/ Return
  \/ PollDone
  \/ Sleep
  \/ TimePasses
  \/ Interrupt
  \/ InitDb
  \/ GetHistoricalData
  \/ GetCurrentPrice
  \/ SimpleAnalysis
  \/ GetInvestmentOpinion
  \/ Decide
  \/ BuyCoin
  \/ SellCoin
  \/ InsertTradeLog
  \/ Handle

Spec == Init /\ [][Next]_vars

\* the program keeps running while it is not interrupted, and time passes
FairSpec == Spec /\ WF_vars(Step) /\ WF_vars(TimePasses)

\* ------------------------------------------ adjust_price_to_tick on its own
\* the bands of the tick table: lowest price and increment
Bands == {<<0, 1>>, <<1000, 5>>, <<10000, 10>>, <<100000, 50>>, <<500000, 100>>,
          <<1000000, 500>>, <<2000000, 1000>>}

\* prices in hundredths: around the foot of each band, and around the
\* points half way between two multiples of its increment
TickInputs ==
  UNION {
    LET lo == b[1] * 100
        half == b[2] * 50
    IN  {lo + k : k \in {0, 1, half - 1, half, half + 1, 2 * half, 3 * half - 1,
                         3 * half, 3 * half + 1, 5 * half, 7 * half}}
        \cup (IF lo > 0 THEN {lo - 1, lo - 50, lo - 51} ELSE {})
    : b \in Bands }

TickInit ==
  /\ ProgInit
  /\ arg \in {Some(c) : c \in TickInputs}
  /\ res = Nil

\* res = adjust_price_to_tick(arg)
AdjustPriceToTick ==
  /\ arg # Nil
  /\ res = Nil
  /\ res' = Some(adjust_price_to_tick(Val(arg)))
  /\ UNCHANGED <<now, sched, pc, locals, exc, steps, sub, log0, log, arg>>

TickNext == AdjustPriceToTick

TickSpec == TickInit /\ [][TickNext]_vars

\* res = adjust_price_to_tick(res): the function applied to its own result
AdjustAgain ==
  /\ Len(res) = 1
  /\ res' = Append(res, adjust_price_to_tick(res[1] * 100))
  /\ UNCHANGED <<now, sched, pc, locals, exc, steps, sub, log0, log, arg>>

TickTwiceNext ==
  \/ AdjustPriceToTick
  \/ AdjustAgain

TickTwiceSpec == TickInit /\ [][TickTwiceNext]_vars

\* ------------------------------------------------ simple_analysis alone
\* closes of 20 or 21 bars: one leading bar outside the 20-bar window, a
\* constant stretch, and every choice of the last five closes
MaxClose == 3

Closes == 1..MaxClose

AnalysisInputs ==
  { lead \o [i \in 1..15 |-> b] \o t :
      lead \in {<<>>, <<9>>}, b \in Closes, t \in [1..5 -> Closes] }

AnalysisInit ==
  /\ ProgInit
  /\ arg \in {Some(s) : s \in AnalysisInputs}
  /\ res = Nil

\* res = simple_analysis(arg)
Analyse ==
  /\ arg # Nil
  /\ res = Nil
  /\ res' = Some(simple_analysis(Val(arg)))
  /\ UNCHANGED <<now, sched, pc, locals, exc, steps, sub, log0, log, arg>>

AnalysisNext == Analyse

AnalysisSpec == AnalysisInit /\ [][AnalysisNext]_vars

TypeOK ==
  /\ now \in 0..MaxClock
  /\ mpc \in {"startup", "trade_once", "run_pending", "jobs", "sleep", "stopped", "crashed"}
  /\ pc \in {"idle", "init_db", "get_historical_data", "get_current_price",
             "simple_analysis", "get_investment_opinion", "decide", "buy_coin",
             "sell_coin", "insert_trade_log", "except", "END", "aborted"}
  /\ active \in {0, 1}

\* ------------------------------------------------------------ the claims
\* the rows this cycle has appended to trade_log
Added == SubSeq(log, log0 + 1, Len(log))

\* the row that records an order
RowOf(o) == [action |-> o.action, market |-> o.market, volume |-> o.volume,
             price |-> o.price]

Submitted == sub # Nil
SubmittedOk == sub # Nil /\ Val(sub).ok
SubmittedFailed == sub # Nil /\ ~Val(sub).ok
Did(step) == \E i \in 1..Len(steps) : steps[i] = step
Count(step) == Cardinality({i \in 1..Len(steps) : steps[i] = step})

\* C1: a row is appended if and only if the order was accepted: a cycle
\* appends nothing unless its order was accepted, and a cycle whose order
\* was accepted has, at its END, appended exactly the one row of that order.
C1_RecordIffSubmitted ==
  /\ ~SubmittedOk => Added = <<>>
  /\ SubmittedOk => (Added = <<>> \/ Added = <<RowOf(Val(sub))>>)
  /\ (pc = "END" /\ SubmittedOk) => Added = <<RowOf(Val(sub))>>

\* the texts of AdviceTexts that contain a buy marker, and those that
\* contain a buy and a sell marker
BuyMarked == {TxtBuy, TxtBuyKo, TxtSellBuy, TxtBuySellKo}
BothMarked == {TxtSellBuy, TxtBuySellKo}

\* C2: once the action is decided, it is BUY whenever the advice holds a
\* buy marker or the signal is BUY, SELL only otherwise, and BUY for an
\* advice that holds both markers, whatever the signal.
C2_BuyFirst ==
  action # None =>
    LET buy == Val(ai_opinion) \in BuyMarked \/ signal = "buy_signal"
    IN  /\ buy => action = "BUY"
        /\ action = "SELL" => ~buy
        /\ Val(ai_opinion) \in BothMarked => action = "BUY"

C2_Witness ==
  /\ action = "BUY"
  /\ signal = "sell_signal"
  /\ ai_opinion = Some(TxtSellBuy)
  /\ SubmittedOk

\* the recommendation step has run and produced no advice
AdviceFailed ==
  /\ Did("get_investment_opinion")
  /\ ai_opinion \in {Nil, Some(Placeholder)}

\* C3: a cycle whose recommendation step failed still reaches END through
\* the decision and the order.
C3_AdviceFailureNeverAborts ==
  (pc = "END" /\ AdviceFailed) => (Did("decide") /\ Did("order"))

\* the series or the current price could not be fetched
FetchFailed ==
  \/ Did("get_historical_data") /\ df = Nil
  \/ Did("get_current_price") /\ current_price = Nil

\* C4: when the fetch failed, the cycle goes to its END with no call of the
\* recommendation service, no order and no row appended.
C4_FetchFailureAborts ==
  FetchFailed =>
    /\ pc \in {"get_current_price", "except", "END"}
    /\ ~Did("get_investment_opinion")
    /\ ~Did("order")
    /\ ~Did("insert_trade_log")
    /\ sub = Nil
    /\ Added = <<>>

C4_Witness ==
  /\ pc = "END"
  /\ df = Nil
  /\ current_price # Nil
  /\ log # <<>>

\* C5: when the order was not accepted, the cycle is at its END, has not
\* called insert_trade_log and has left the log as it found it.
C5_OrderFailureNoRecord ==
  SubmittedFailed =>
    /\ pc = "END"
    /\ ~Did("insert_trade_log")
    /\ Added = <<>>
    /\ Len(log) = log0

C5_Witness ==
  /\ SubmittedFailed
  /\ Val(sub).action = "BUY"
  /\ pc = "END"
  /\ \E i \in 1..Len(log) : log[i].action = "SELL"

\* C6: no failure of a collaborator ends the process: no exception leaves
\* trade_once, every cycle reaches its END, and every job that is due and not
\* yet running is run, unless the operator stops the process.
C6_NoFailureIsFatal ==
  /\ [](mpc # "crashed")
  /\ [](pc # "idle" => <>(pc = "END" \/ ~Alive))
  /\ \A j \in Jobs :
       []((Alive /\ now >= next_run[j] /\ cur # j) => <>(cur = j \/ ~Alive))

C6_Witness ==
  /\ cur = 14
  /\ pc = "END"
  /\ exc = "OperationalError"
  /\ SubmittedOk
  /\ Len(ran) = 1

\* C7: when the operator's interrupt has stopped the process, no cycle is
\* left between its start and its END, and an accepted order has had its
\* insert_trade_log called.
C7_InterruptAfterCycle ==
  mpc = "stopped" =>
    /\ pc \in {"idle", "END"}
    /\ SubmittedOk => Did("insert_trade_log")

\* the jobs of the current call of run_pending: run, running, still to run
PollJobs == ran \o (IF cur # 0 THEN <<cur>> ELSE <<>>) \o queue

TickOf(c) ==
  IF c >= 200000000 THEN 1000
  ELSE IF c >= 100000000 THEN 500
  ELSE IF c >= 50000000 THEN 100
  ELSE IF c >= 10000000 THEN 50
  ELSE IF c >= 1000000 THEN 10
  ELSE IF c >= 100000 THEN 5
  ELSE 1

\* C10: the adjusted price is a multiple of the increment of the band of the
\* price, and is at most half that increment away from the price.
C10_TickMultipleWithinHalf ==
  res # Nil =>
    LET c == Val(arg)
        v == Val(res)
        inc == TickOf(c)
    IN  /\ v % inc = 0
        /\ 100 * v - c <= 50 * inc
        /\ c - 100 * v <= 50 * inc

C10_Witness ==
  /\ arg = Some(200050000)
  /\ res = Some(2000000)

\* C11: adjust_price_to_tick applied to its own result returns that result,
\* also when the result lies in the band above that of the price.
C11_TickIdempotent ==
  Len(res) = 2 => res[2] = res[1]

C11_Witness ==
  /\ arg = Some(99950)
  /\ res = <<1000, 1000>>

\* the last five and the last twenty closes, added up term by term
Last5(s) ==
  LET n == Len(s)
  IN  s[n] + s[n-1] + s[n-2] + s[n-3] + s[n-4]

Last20(s) ==
  LET n == Len(s)
  IN  s[n] + s[n-1] + s[n-2] + s[n-3] + s[n-4]
      + s[n-5] + s[n-6] + s[n-7] + s[n-8] + s[n-9]
      + s[n-10] + s[n-11] + s[n-12] + s[n-13] + s[n-14]
      + s[n-15] + s[n-16] + s[n-17] + s[n-18] + s[n-19]

\* C12: on a series of at least 20 bars simple_analysis returns the buy signal
\* exactly when the mean of the last 5 closes is strictly greater than the
\* mean of the last 20, and the sell signal otherwise, a tie included.
C12_MaCrossover ==
  (res # Nil /\ Len(Val(arg)) >= 20) =>
    /\ Val(res) \in {"buy_signal", "sell_signal"}
    /\ Val(res) = "buy_signal" <=> 4 * Last5(Val(arg)) > Last20(Val(arg))

\* a tie between two means of closes that are not all equal
C12_Witness ==
  /\ arg = Some([i \in 1..15 |-> 2] \o <<1, 3, 2, 2, 2>>)
  /\ res = Some("sell_signal")

\* the advice of this cycle is the text put in place of a failed request
AdviceAbsent == ai_opinion = Some(Placeholder)

C14_LimitPrice ==
  /\ Submitted =>
       /\ Val(sub).action = "BUY" =>
            Val(sub).price = adjust_price_to_tick(Val(current_price) * 99)
       /\ Val(sub).action = "SELL" =>
            Val(sub).price = adjust_price_to_tick(Val(current_price) * 101)
       /\ Val(sub).volume = Volume
  /\ (Submitted /\ Added # <<>>) =>
       /\ Added[1].price = Val(sub).price
       /\ Added[1].volume = Val(sub).volume

\* 1012 * 0.99 = 1001.88, on the 5-unit tick 1000
C14_Witness ==
  /\ current_price = Some(1012)
  /\ SubmittedOk
  /\ Val(sub).action = "BUY"
  /\ Val(sub).price = 1000
  /\ Added = <<[action |-> "BUY", market |-> Market, volume |-> Volume, price |-> 1000]>>

\* C15: nothing is tried again within a cycle: the order call is made at most
\* once and so is the log append; after an order that failed the cycle is at
\* its END, and after a log append that failed it is on its way there.
C15_NoRetry ==
  /\ Count("order") <= 1
  /\ Count("insert_trade_log") <= 1
  /\ SubmittedFailed => pc = "END"
  /\ (Did("insert_trade_log") /\ Added = <<>>) =>
       /\ exc = "OperationalError"
       /\ pc \in {"except", "END"}

\* the cycle whose log append failed has ended after its one order call
C15_Witness ==
  /\ pc = "END"
  /\ Did("insert_trade_log")
  /\ Added = <<>>
  /\ Count("order") = 1
  /\ mpc = "trade_once"

\* the calls of trade_once in the order of its text
Canonical ==
  <<"init_db", "get_historical_data", "get_current_price", "simple_analysis",
    "get_investment_opinion", "decide", "order", "insert_trade_log">>

IsPrefix(s, t) ==
  /\ Len(s) <= Len(t)
  /\ \A i \in 1..Len(s) : s[i] = t[i]

\* the steps made so far are an initial part of the fixed order, each made
\* once; the advice is asked after both fetches succeeded, the order placed
\* after the advice step finished, the row written after the order
StepsInOrder ==
  /\ IsPrefix(steps, Canonical)
  /\ Did("get_investment_opinion") => (df # Nil /\ current_price # Nil)
  /\ Did("order") => ai_opinion # Nil
  /\ Did("insert_trade_log") => Submitted

\* C16: every cycle makes its steps in the fixed order, each at most once
\* (advice after both fetches succeeded, order after the advice step, log
\* append after the order), and every cycle reaches its END.
C16_FixedOrderToEnd ==
  /\ []StepsInOrder
  /\ [](pc # "idle" => <>(pc = "END"))

\* C17: on a fetched series of fewer than 20 bars the analysis step fails:
\* simple_analysis yields neither the buy nor the sell signal, and the cycle
\* places no order on it.
C17_ShortSeriesNoSignal ==
  (df # Nil /\ Len(Val(df)) < 20 /\ Did("simple_analysis")) =>
    /\ signal \notin {"buy_signal", "sell_signal"}
    /\ ~Did("order")

\* the order fixed by a series, a current price and an advice text alone
ExpectedOrder(series, cp, advice) ==
  LET a == Reconcile(advice, simple_analysis(series))
  IN  [action |-> a, market |-> Market, volume |-> Volume,
       price |-> adjust_price_to_tick(RawPrice(a, cp))]

\* C18: cycles are independent: the action, limit price and volume of the
\* order a cycle submits are a function of that cycle's series, current price
\* and advice only, whatever earlier cycles did and whatever the log holds,
\* so two runs given the same inputs in a cycle submit the same order.
C18_OrderFunctionOfInputs ==
  Submitted =>
    RowOf(Val(sub)) = ExpectedOrder(Val(df), Val(current_price), Val(ai_opinion))

\* a scheduled cycle that sells although the log it found ends with a row
\* of an earlier sale
C18_Witness ==
  /\ cur = 14
  /\ log0 >= 1
  /\ log[log0].action = "SELL"
  /\ Submitted
  /\ Val(sub).action = "SELL"

\* no cycle decides to hold
NeverHold == action # "HOLD"

\* C19: HOLD is unreachable: every cycle that got past its fetches and its
\* analysis has, at its END, submitted exactly one order, a BUY or a SELL,
\* whatever the advice was.
C19_AlwaysOneOrder ==
  /\ NeverHold
  /\ (pc = "END" /\ signal # None) =>
       /\ Count("order") = 1
       /\ Submitted
       /\ Val(sub).action \in {"BUY", "SELL"}
====
